---- MODULE Spec2Model ----
(***************************************************************************)
(* Plant Diagnosis App (src/app.py): a Streamlit script that is run from   *)
(* top to bottom once per user interaction.  One action of this model is   *)
(* one complete script run for one client session, triggered by one        *)
(* widget event.  Script runs of one client do not overlap (spec, sec. 5). *)
(*                                                                         *)
(* Library behaviour the model relies on:                                  *)
(*  - st.stop() ends the run by raising a control exception that is not an *)
(*    Exception subclass, so "except Exception" does not catch it;         *)
(*  - a button is True only in the run its click triggers;                 *)
(*  - a widget that is not rendered in a run loses its value;              *)
(*  - widgets created without a key are not keys of st.session_state.      *)
(***************************************************************************)
EXTENDS Integers, Sequences, FiniteSets, TLC

\* ---------------------------------------------------------------- bounds
MaxFeedback == 2
MaxGenerations == 2
MaxCandidates == 2

\* ------------------------------------------------------ program constants
DefaultRating == 3
MinRating == 1
MaxRating == 5

\* ------------------------------------------------------------ value sets
None == "None"
Clients == {"c1", "c2"}

Keys == {"feedback_rating", "diagnosis_text", "submitted_feedback",
         "generated_diagnosis", "capture_started", "last_image_file"}

InputMethods == {"Upload Image", "Camera Capture"}

\* Files a user can supply; "broken.png" is not a decodable image.
ImageFiles == {"leaf.jpg", "broken.png"}

\* Values the user moves the rating slider to.
SliderChoices == {MinRating, MaxRating}

CropValues == {"", "tomato"}
LocationValues == {"", "Hanoi"}
GrowthStageValues == {"", "seedling"}
Comments == {"", "great"}

\* Readings of the clock, in seconds since the epoch.
Times == {1700000000, 1700000060}

\* Texts the generation endpoint returns (resp.text may be empty).
ResponseTexts == {"", "Likely: Early Blight", "Likely: Late Blight"}

\* An optional value: <<>> is Python's None, <<v>> is the value v.
Nothing == <<>>
Some(v) == <<v>>
IsSome(o) == o # <<>>
TheValue(o) == o[1]

\* A dict with string keys: a function whose domain is the set of its keys.
EmptyDict == [k \in {} |-> ""]
Get(d, k, default) == IF k \in DOMAIN d THEN d[k] ELSE default

RECURSIVE Join(_, _)
\* sep.join(seq)
Join(seq, sep) ==
    IF seq = <<>> THEN ""
    ELSE IF Len(seq) = 1 THEN seq[1]
    ELSE seq[1] \o sep \o Join(Tail(seq), sep)

\* ------------------------------------------------------------ pure code

\* Raw field values of the sensor record, as text.
RawValues == {"25", "60", "nan", "abc"}

\* float(x): the float, printed the way an f-string prints it, or Nothing
\* when float() raises ValueError.
PyFloat(x) ==
    CASE x = "25" -> Some("25.0")
      [] x = "60" -> Some("60.0")
      [] x = "nan" -> Some("nan")
      [] OTHER -> Nothing

\* Truth value of a dict: non-empty.
Truthy(d) == DOMAIN d # {}

\* Mutant: a file that is not an image is passed on as it is.
load_image_bytes_NoDecode(file) == Some("jpeg:" \o file)

\* load_image_bytes(file): the JPEG bytes, or Nothing when Image.open raises.
load_image_bytes(file) ==
    IF file = "leaf.jpg" THEN Some("jpeg:" \o file) ELSE Nothing

\* An uploaded candidates file: [valid, json]; json.load raises on an
\* invalid one.  load_candidates returns [raised, value].
load_candidates(file) ==
    IF ~IsSome(file) THEN [raised |-> FALSE, value |-> Nothing]
    ELSE IF ~TheValue(file).valid THEN [raised |-> TRUE, value |-> Nothing]
    ELSE [raised |-> FALSE, value |-> Some(TheValue(file).json)]

\* One line of the prompt: the literal text before the interpolated value,
\* the value, and the literal text after it.
Line(label, value, tail) == [label |-> label, value |-> value, tail |-> tail]
Render(line) == line.label \o line.value \o line.tail

HeaderLabel == "Generate an English diagnosis text using the following information."
CropLabel == "- Crop: "
GrowthStageLabel == "- Growth stage: "
LocationLabel == "- Location: "
TemperatureLabel == "- Temperature: "
HumidityLabel == "- Humidity: "
CandidatesLabel == "- Candidate diseases: "
FooterLabel == "Return plain English text only (no JSON)."

\* Mutant: names that are empty or missing are not filtered out.
RECURSIVE candidate_names_Unfiltered(_)
candidate_names_Unfiltered(list) ==
    IF list = <<>> THEN <<>>
    ELSE <<Get(list[1], "name", "")>> \o candidate_names_Unfiltered(Tail(list))

\* names = [c.get('name') for c in candidates['candidates'] if c.get('name')]
RECURSIVE candidate_names(_)
candidate_names(list) ==
    IF list = <<>> THEN <<>>
    ELSE LET name == Get(list[1], "name", "")
         IN  (IF name # "" THEN <<name>> ELSE <<>>) \o candidate_names(Tail(list))

candidate_lines(candidates) ==
    IF IsSome(candidates) /\ Truthy(TheValue(candidates))
          /\ "candidates" \in DOMAIN TheValue(candidates)
    THEN LET names == candidate_names(TheValue(candidates)["candidates"])
         IN  IF names # <<>>
             THEN <<Line(CandidatesLabel, Join(names, ", "), "")>>
             ELSE <<>>
    ELSE <<>>

\* Mutant: location is appended before growth stage, the order of the
\* function's parameters.
prompt_lines_LocationFirst(sensor, candidates, crop, location, growth_stage) ==
    <<Line(HeaderLabel, "", "")>>
    \o (IF crop # "" THEN <<Line(CropLabel, crop, "")>> ELSE <<>>)
    \o (IF location # "" THEN <<Line(LocationLabel, location, "")>> ELSE <<>>)
    \o (IF growth_stage # "" THEN <<Line(GrowthStageLabel, growth_stage, "")>> ELSE <<>>)
    \o <<Line(TemperatureLabel, Get(sensor, "temp_c", "NaN"), " C")>>
    \o <<Line(HumidityLabel, Get(sensor, "humidity", "NaN"), " %")>>
    \o candidate_lines(candidates)
    \o <<Line(FooterLabel, "", "")>>

\* The list "lines" of build_user_prompt just before it is joined (the
\* degree sign of the temperature line is left out).
prompt_lines(sensor, candidates, crop, location, growth_stage) ==
    <<Line(HeaderLabel, "", "")>>
    \o (IF crop # "" THEN <<Line(CropLabel, crop, "")>> ELSE <<>>)
    \o (IF growth_stage # "" THEN <<Line(GrowthStageLabel, growth_stage, "")>> ELSE <<>>)
    \o (IF location # "" THEN <<Line(LocationLabel, location, "")>> ELSE <<>>)
    \o <<Line(TemperatureLabel, Get(sensor, "temp_c", "NaN"), " C")>>
    \o <<Line(HumidityLabel, Get(sensor, "humidity", "NaN"), " %")>>
    \o candidate_lines(candidates)
    \o <<Line(FooterLabel, "", "")>>

RenderAll(lines) == [i \in DOMAIN lines |-> Render(lines[i])]

build_user_prompt(sensor, candidates, crop, location, growth_stage) ==
    Join(RenderAll(prompt_lines(sensor, candidates, crop, location, growth_stage)), "\n")

\* Mutant: the missing-record check is left out.
read_sensor_NoStop(data) ==
    LET d == IF IsSome(data) THEN TheValue(data) ELSE EmptyDict
        temp == PyFloat(Get(d, "temperature", "nan"))
        hum == PyFloat(Get(d, "humidity", "nan"))
    IN  IF ~IsSome(temp) \/ ~IsSome(hum)
        THEN [outcome |-> "raise", sensor |-> EmptyDict]
        ELSE [outcome |-> "ok",
              sensor |-> [temp_c |-> TheValue(temp), humidity |-> TheValue(hum)]]

\* read_sensor_from_realtime once the record was fetched: "stop" when the
\* record is missing or empty, "raise" when float() raises, else the dict.
read_sensor_from_realtime(data) ==
    IF ~IsSome(data) \/ ~Truthy(TheValue(data))
    THEN [outcome |-> "stop", sensor |-> EmptyDict]
    ELSE LET temp == PyFloat(Get(TheValue(data), "temperature", "nan"))
             hum == PyFloat(Get(TheValue(data), "humidity", "nan"))
         IN  IF ~IsSome(temp) \/ ~IsSome(hum)
             THEN [outcome |-> "raise", sensor |-> EmptyDict]
             ELSE [outcome |-> "ok",
                   sensor |-> [temp_c |-> TheValue(temp), humidity |-> TheValue(hum)]]

\* Mutant: crop, location and growth_stage are stored even when empty.
feedback_entry_AllOptional(rating, feedback_text, diagnosis, crop, location, growth_stage, now) ==
    [rating |-> rating, feedback |-> feedback_text, diagnosis |-> diagnosis,
     timestamp |-> now,
     optional |-> [k \in {"crop", "location", "growth_stage"} |->
                     CASE k = "crop" -> crop
                       [] k = "location" -> location
                       [] OTHER -> growth_stage]]

\* The entry save_feedback_to_firebase pushes; now is what int(time.time())
\* returns.  The keys that are present only for a non-empty value are kept
\* together in the dict "optional".
feedback_entry(rating, feedback_text, diagnosis, crop, location, growth_stage, now) ==
    LET optional == (IF crop # "" THEN {"crop"} ELSE {})
                    \cup (IF location # "" THEN {"location"} ELSE {})
                    \cup (IF growth_stage # "" THEN {"growth_stage"} ELSE {})
    IN  [rating |-> rating, feedback |-> feedback_text, diagnosis |-> diagnosis,
         timestamp |-> now,
         optional |-> [k \in optional |->
                         CASE k = "crop" -> crop
                           [] k = "location" -> location
                           [] OTHER -> growth_stage]]

\* ----------------------------------------------------------------- state

VARIABLES
    env,            \* process configuration: [cred, key], fixed at start
    firebase_apps,  \* firebase_admin._apps is non-empty
    feedback_count, \* number of records under /feedback
    generations,    \* number of generate_content calls that returned
    session_state,  \* per client: st.session_state, a dict
    widgets,        \* per client: the values of the rendered widgets
    page,           \* per client: what the last script run did and showed
    args,           \* arguments of a direct build_user_prompt call
    result          \* what that call returned

vars == <<env, firebase_apps, feedback_count, generations, session_state,
          widgets, page, args, result>>

WarnNoImage == "Please capture or upload a plant image first."
ErrNoCredentials == "GOOGLE_APPLICATION_CREDENTIALS is not set or file not found."
ErrNoApiKey == "GEMINI_API_KEY is not set."
ErrNoData == "No data found at path: /sensors2"
ErrFloat == "Error: could not convert string to float"
ErrImage == "Error: cannot identify image file"
ErrJson == "Error: Expecting value"
ErrGenerate == "Error: generation failed"
ErrPush == "uncaught: push failed"
Thanks == "Thank you for your feedback!"

SensorRead == "db.reference(/sensors2).get"
GenerateCall == "generate_content"
FeedbackPush == "db.reference(/feedback).push"

\* Lines 111-122: every missing key gets its default.
DefaultOf(k) ==
    CASE k = "feedback_rating" -> DefaultRating
      [] k = "diagnosis_text" -> ""
      [] k = "last_image_file" -> None
      [] OTHER -> FALSE

SessionDefaults(s) ==
    [k \in Keys |-> IF k \in DOMAIN s THEN s[k] ELSE DefaultOf(k)]

\* Mutant: the API key is not checked.
Boot_NoKeyCheck(apps, e) ==
    IF ~apps /\ ~e.cred
    THEN [halt |-> TRUE, message |-> ErrNoCredentials, apps |-> FALSE]
    ELSE [halt |-> FALSE, message |-> "", apps |-> TRUE]

\* Lines 19-34: [halt, message, apps].
Boot(apps, e) ==
    IF ~apps /\ ~e.cred
    THEN [halt |-> TRUE, message |-> ErrNoCredentials, apps |-> FALSE]
    ELSE IF ~e.key
    THEN [halt |-> TRUE, message |-> ErrNoApiKey, apps |-> TRUE]
    ELSE [halt |-> FALSE, message |-> "", apps |-> TRUE]

NoWidgets ==
    [input_method |-> "Upload Image", image_file |-> None,
     candidates_file |-> Nothing, crop |-> "", location |-> "",
     growth_stage |-> ""]

\* status: "none" before the first run, "halted" when lines 19-34 stopped
\* the run, "stopped" when st.stop() ended it later, "exception" when an
\* uncaught exception ended it, else "done".  calls are the network calls
\* the run issued, parts the payload of its generate_content call, entry
\* the payload of its push, pressed the button whose click started the run.
NoPage ==
    [pressed |-> "", status |-> "none", messages |-> {}, calls |-> <<>>,
     parts |-> Nothing, entry |-> Nothing]

GenerateButton == "Generate Diagnosis"
SubmitButton == "Submit Feedback"

ButtonOf(ev) ==
    CASE ev.kind = "generate" -> GenerateButton
      [] ev.kind = "submit" -> SubmitButton
      [] OTHER -> ""

\* Mutant: the image widget is rendered, and keeps its file, whether or not
\* capture was started.
WidgetsSeen_AlwaysImage(w, capture_started, ev) ==
    LET method == IF ev.kind = "method" THEN ev.method ELSE w.input_method
        image == IF ev.kind = "image" THEN ev.file
                 ELSE IF method # w.input_method THEN None
                 ELSE w.image_file
    IN  [input_method |-> method,
         image_file |-> image,
         candidates_file |->
             IF ev.kind = "candidates" THEN ev.file ELSE w.candidates_file,
         crop |-> IF ev.kind = "crop" THEN ev.text ELSE w.crop,
         location |-> IF ev.kind = "location" THEN ev.text ELSE w.location,
         growth_stage |->
             IF ev.kind = "growth_stage" THEN ev.text ELSE w.growth_stage]

\* The widgets as a run triggered by event ev returns them (lines 128-151).
\* The image widget is rendered only while capture_started, and the two
\* input methods render different widgets.
WidgetsSeen(w, capture_started, ev) ==
    LET method == IF ev.kind = "method" THEN ev.method ELSE w.input_method
        image == IF ~capture_started THEN None
                 ELSE IF ev.kind = "image" THEN ev.file
                 ELSE IF method # w.input_method THEN None
                 ELSE w.image_file
    IN  [input_method |-> method,
         image_file |-> image,
         candidates_file |->
             IF ev.kind = "candidates" THEN ev.file ELSE w.candidates_file,
         crop |-> IF ev.kind = "crop" THEN ev.text ELSE w.crop,
         location |-> IF ev.kind = "location" THEN ev.text ELSE w.location,
         growth_stage |->
             IF ev.kind = "growth_stage" THEN ev.text ELSE w.growth_stage]

Outcome(s, status, messages, calls, parts, generated) ==
    [session |-> s, status |-> status, messages |-> messages, calls |-> calls,
     parts |-> parts, generated |-> generated, entry |-> Nothing]

\* Mutant: the earlier diagnosis is kept until a new one has arrived.
ClearForRequest_KeepsOld(s, image_file) ==
    [s EXCEPT !.submitted_feedback = FALSE,
              !.last_image_file = image_file]

\* Mutant: the flag is cleared and the text is left.
ClearForRequest_KeepsText(s, image_file) ==
    [s EXCEPT !.generated_diagnosis = FALSE,
              !.submitted_feedback = FALSE,
              !.last_image_file = image_file]

\* Lines 158-161: what the handler clears before it tries.
ClearForRequest(s, image_file) ==
    [s EXCEPT !.generated_diagnosis = FALSE,
              !.diagnosis_text = "",
              !.submitted_feedback = FALSE,
              !.last_image_file = image_file]

\* Lines 175-178: the parts sent to generate_content.
RequestParts(sensor, candidates, img, w) ==
    [prompt |-> build_user_prompt(sensor, candidates, w.crop, w.location,
                                  w.growth_stage),
     image |-> img,
     candidates |-> IF IsSome(candidates) /\ Truthy(TheValue(candidates))
                    THEN candidates ELSE Nothing]

\* Mutant: the handler clears the session before it checks the image.
GenerateDiagnosis_ClearFirst(s, w, data, resp) ==
    IF w.image_file = None
    THEN Outcome(ClearForRequest(s, w.image_file), "done", {WarnNoImage},
                 <<>>, Nothing, FALSE)
    ELSE
      LET s1 == ClearForRequest(s, w.image_file)
          read == read_sensor_from_realtime(data)
          img == load_image_bytes(w.image_file)
          cand == load_candidates(w.candidates_file)
      IN
        IF read.outcome = "stop"
        THEN Outcome(s1, "stopped", {ErrNoData}, <<SensorRead>>, Nothing, FALSE)
        ELSE IF read.outcome = "raise"
        THEN Outcome(s1, "done", {ErrFloat}, <<SensorRead>>, Nothing, FALSE)
        ELSE IF ~IsSome(img)
        THEN Outcome(s1, "done", {ErrImage}, <<SensorRead>>, Nothing, FALSE)
        ELSE IF cand.raised
        THEN Outcome(s1, "done", {ErrJson}, <<SensorRead>>, Nothing, FALSE)
        ELSE
          LET parts == RequestParts(read.sensor, cand.value, TheValue(img), w)
          IN  IF ~resp.ok
              THEN Outcome(s1, "done", {ErrGenerate},
                           <<SensorRead, GenerateCall>>, Some(parts), FALSE)
              ELSE Outcome([s1 EXCEPT !.diagnosis_text = resp.text,
                                      !.generated_diagnosis = TRUE],
                           "done", {}, <<SensorRead, GenerateCall>>,
                           Some(parts), TRUE)

\* Mutant: a failed generation call is tried a second time.
GenerateDiagnosis_Retry(s, w, data, resp) ==
    IF w.image_file = None
    THEN Outcome(s, "done", {WarnNoImage}, <<>>, Nothing, FALSE)
    ELSE
      LET s1 == ClearForRequest(s, w.image_file)
          read == read_sensor_from_realtime(data)
          img == load_image_bytes(w.image_file)
          cand == load_candidates(w.candidates_file)
      IN
        IF read.outcome = "stop"
        THEN Outcome(s1, "stopped", {ErrNoData}, <<SensorRead>>, Nothing, FALSE)
        ELSE IF read.outcome = "raise"
        THEN Outcome(s1, "done", {ErrFloat}, <<SensorRead>>, Nothing, FALSE)
        ELSE IF ~IsSome(img)
        THEN Outcome(s1, "done", {ErrImage}, <<SensorRead>>, Nothing, FALSE)
        ELSE IF cand.raised
        THEN Outcome(s1, "done", {ErrJson}, <<SensorRead>>, Nothing, FALSE)
        ELSE
          LET parts == RequestParts(read.sensor, cand.value, TheValue(img), w)
          IN  IF ~resp.ok
              THEN Outcome(s1, "done", {ErrGenerate},
                           <<SensorRead, GenerateCall, GenerateCall>>,
                           Some(parts), FALSE)
              ELSE Outcome([s1 EXCEPT !.diagnosis_text = resp.text,
                                      !.generated_diagnosis = TRUE],
                           "done", {}, <<SensorRead, GenerateCall>>,
                           Some(parts), TRUE)

\* Lines 154-184: the "Generate Diagnosis" handler.  data is the record at
\* /sensors2 when it is read, resp what generate_content does when called.
GenerateDiagnosis(s, w, data, resp) ==
    IF w.image_file = None
    THEN Outcome(s, "done", {WarnNoImage}, <<>>, Nothing, FALSE)
    ELSE
      LET s1 == ClearForRequest(s, w.image_file)
          read == read_sensor_from_realtime(data)
          img == load_image_bytes(w.image_file)
          cand == load_candidates(w.candidates_file)
      IN
        IF read.outcome = "stop"
        THEN Outcome(s1, "stopped", {ErrNoData}, <<SensorRead>>, Nothing, FALSE)
        ELSE IF read.outcome = "raise"
        THEN Outcome(s1, "done", {ErrFloat}, <<SensorRead>>, Nothing, FALSE)
        ELSE IF ~IsSome(img)
        THEN Outcome(s1, "done", {ErrImage}, <<SensorRead>>, Nothing, FALSE)
        ELSE IF cand.raised
        THEN Outcome(s1, "done", {ErrJson}, <<SensorRead>>, Nothing, FALSE)
        ELSE
          LET parts == RequestParts(read.sensor, cand.value, TheValue(img), w)
          IN  IF ~resp.ok
              THEN Outcome(s1, "done", {ErrGenerate},
                           <<SensorRead, GenerateCall>>, Some(parts), FALSE)
              ELSE Outcome([s1 EXCEPT !.diagnosis_text = resp.text,
                                      !.generated_diagnosis = TRUE],
                           "done", {}, <<SensorRead, GenerateCall>>,
                           Some(parts), TRUE)

\* Mutant: a failed push discards the diagnosis that was being rated.
AfterPushFailed_ClearsDiagnosis(o, s2) ==
    [o EXCEPT !.session = [s2 EXCEPT !.generated_diagnosis = FALSE,
                                     !.diagnosis_text = ""],
              !.status = "exception",
              !.messages = @ \cup {ErrPush},
              !.calls = Append(@, FeedbackPush)]

\* Mutant: the feedback is marked as submitted before it is written.
AfterPushFailed_MarksSubmitted(o, s2) ==
    [o EXCEPT !.session = [s2 EXCEPT !.submitted_feedback = TRUE],
              !.status = "exception",
              !.messages = @ \cup {ErrPush},
              !.calls = Append(@, FeedbackPush)]

\* Lines 203-210 when ref.push raises: nothing catches the exception, the
\* run ends there.
AfterPushFailed(o, s2) ==
    [o EXCEPT !.session = s2,
              !.status = "exception",
              !.messages = @ \cup {ErrPush},
              !.calls = Append(@, FeedbackPush)]

\* Mutant: the handler neither marks the feedback as submitted nor resets
\* the session.
AfterPush_NoReset(o, s2, entry) ==
    [o EXCEPT !.session = s2,
              !.messages = @ \cup {Thanks},
              !.calls = Append(@, FeedbackPush),
              !.entry = Some(entry)]

\* Mutant: the reset spares the rating.
AfterPush_KeepRating(o, s2, entry) ==
    [o EXCEPT !.session = [feedback_rating |-> s2.feedback_rating],
              !.status = "rerun",
              !.messages = @ \cup {Thanks},
              !.calls = Append(@, FeedbackPush),
              !.entry = Some(entry)]

\* Mutant: the feedback is marked as submitted, and the session is neither
\* deleted nor rerun.
AfterPush_MarkOnly(o, s2, entry) ==
    [o EXCEPT !.session = [s2 EXCEPT !.submitted_feedback = TRUE],
              !.messages = @ \cup {Thanks},
              !.calls = Append(@, FeedbackPush),
              !.entry = Some(entry)]

\* Lines 203-218 when ref.push returns: submitted_feedback is set, every
\* key of the session is deleted and st.rerun() is called ("rerun").
AfterPush(o, s2, entry) ==
    [o EXCEPT !.session = EmptyDict,
              !.status = "rerun",
              !.messages = @ \cup {Thanks},
              !.calls = Append(@, FeedbackPush),
              !.entry = Some(entry)]

\* Lines 187-218: the result panel, the rating slider and the "Submit
\* Feedback" handler.  o is the outcome of the run so far.
ShowDiagnosisResult(o, w, ev) ==
    LET s == o.session
    IN
      IF o.status # "done" \/ ~s.generated_diagnosis \/ s.submitted_feedback
      THEN o
      ELSE
        LET s2 == [s EXCEPT !.feedback_rating =
                       IF ev.kind = "slider" THEN ev.rating ELSE @]
            entry == feedback_entry(s2.feedback_rating, ev.text,
                                    s2.diagnosis_text, w.crop, w.location,
                                    w.growth_stage, ev.now)
        IN
          IF ev.kind # "submit"
          THEN [o EXCEPT !.session = s2]
          ELSE IF ~ev.push_ok
          THEN AfterPushFailed(o, s2)
          ELSE AfterPush(o, s2, entry)

NoEvent == [kind |-> "none"]

\* Lines 111-218 for a session, the widgets on screen and event ev, with
\* the run that st.rerun() starts when the submit handler ends.  Lines 19-34
\* cannot halt that second run: the first one passed them with the same
\* configuration.
RunFrom(session, shown, ev) ==
    LET s0 == SessionDefaults(session)
        s1 == IF ev.kind = "start"
              THEN [s0 EXCEPT !.capture_started = TRUE] ELSE s0
        w == WidgetsSeen(shown, s1.capture_started, ev)
        gen == IF ev.kind = "generate"
               THEN GenerateDiagnosis(s1, w, ev.data, ev.resp)
               ELSE Outcome(s1, "done", {}, <<>>, Nothing, FALSE)
        fin == ShowDiagnosisResult(gen, w, ev)
        again == fin.status = "rerun"
        s9 == IF again THEN SessionDefaults(fin.session) ELSE fin.session
        w9 == IF again THEN WidgetsSeen(w, s9.capture_started, NoEvent) ELSE w
    IN  [session |-> s9, widgets |-> w9,
         page |-> [pressed |-> ButtonOf(ev),
                   status |-> IF again THEN "done" ELSE fin.status,
                   messages |-> fin.messages, calls |-> fin.calls,
                   parts |-> fin.parts, entry |-> fin.entry],
         generated |-> fin.generated]

RunOf(c, ev) == RunFrom(session_state[c], widgets[c], ev)

\* Mutant: the session state is one store that all clients share.
ScriptRun_SharedSession(c, ev) ==
    LET boot == Boot(firebase_apps, env)
    IN
      /\ firebase_apps' = boot.apps
      /\ UNCHANGED <<env, args, result>>
      /\ IF boot.halt
         THEN /\ page' = [page EXCEPT ![c] =
                     [pressed |-> ButtonOf(ev), status |-> "halted",
                      messages |-> {boot.message}, calls |-> <<>>,
                      parts |-> Nothing, entry |-> Nothing]]
              /\ UNCHANGED <<session_state, widgets, feedback_count, generations>>
         ELSE \E r \in {RunOf(c, ev)} :
              /\ session_state' = [d \in Clients |-> r.session]
              /\ widgets' = [widgets EXCEPT ![c] = r.widgets]
              /\ page' = [page EXCEPT ![c] = r.page]
              /\ feedback_count' = IF IsSome(r.page.entry)
                                   THEN feedback_count + 1 ELSE feedback_count
              /\ generations' = IF r.generated THEN generations + 1
                                ELSE generations

\* One script run for client c, triggered by event ev.
ScriptRun(c, ev) ==
    LET boot == Boot(firebase_apps, env)
    IN
      /\ firebase_apps' = boot.apps
      /\ UNCHANGED <<env, args, result>>
      /\ IF boot.halt
         THEN /\ page' = [page EXCEPT ![c] =
                     [pressed |-> ButtonOf(ev), status |-> "halted",
                      messages |-> {boot.message}, calls |-> <<>>,
                      parts |-> Nothing, entry |-> Nothing]]
              /\ UNCHANGED <<session_state, widgets, feedback_count, generations>>
         ELSE \E r \in {RunOf(c, ev)} :
              /\ session_state' = [session_state EXCEPT ![c] = r.session]
              /\ widgets' = [widgets EXCEPT ![c] = r.widgets]
              /\ page' = [page EXCEPT ![c] = r.page]
              /\ feedback_count' = IF IsSome(r.page.entry)
                                   THEN feedback_count + 1 ELSE feedback_count
              /\ generations' = IF r.generated THEN generations + 1
                                ELSE generations

\* ------------------------------------------------------------- the inputs

\* Records found at /sensors2.
SensorDicts ==
    {EmptyDict,
     [battery |-> "25"],
     [temperature |-> "25", humidity |-> "60"],
     [temperature |-> "25"],
     [temperature |-> "abc", humidity |-> "60"],
     [temperature |-> "25", humidity |-> "abc"]}
SensorData == {Nothing} \cup {Some(d) : d \in SensorDicts}

Responses ==
    {[ok |-> FALSE, text |-> ""]} \cup {[ok |-> TRUE, text |-> t] : t \in ResponseTexts}

TwoCandidates ==
    [candidates |-> <<[name |-> "Early Blight"], [name |-> "Late Blight"]>>]
CandidateFiles ==
    {Nothing, Some([valid |-> FALSE, json |-> EmptyDict]),
     Some([valid |-> TRUE, json |-> TwoCandidates])}

\* --------------------------------------------------------------- actions

\* The widgets of the page are on screen.
Usable(c) == page[c].status \in {"done", "stopped", "exception"}

\* The rating slider, the comment box and "Submit Feedback" are on screen.
ControlsShown(c) ==
    /\ Usable(c)
    /\ session_state[c].generated_diagnosis
    /\ ~session_state[c].submitted_feedback

OpenPage(c) ==
    /\ ~Usable(c)
    /\ ScriptRun(c, [kind |-> "open"])

ChooseInputMethod(c, m) ==
    /\ Usable(c)
    /\ m # widgets[c].input_method
    /\ ScriptRun(c, [kind |-> "method", method |-> m])

PressStart(c) ==
    /\ Usable(c)
    /\ ScriptRun(c, [kind |-> "start"])

ProvideImage(c, f) ==
    /\ Usable(c)
    /\ session_state[c].capture_started
    /\ f # widgets[c].image_file
    /\ ScriptRun(c, [kind |-> "image", file |-> f])

UploadCandidates(c, f) ==
    /\ Usable(c)
    /\ f # widgets[c].candidates_file
    /\ ScriptRun(c, [kind |-> "candidates", file |-> f])

EditCrop(c, text) ==
    /\ Usable(c)
    /\ text # widgets[c].crop
    /\ ScriptRun(c, [kind |-> "crop", text |-> text])

EditLocation(c, text) ==
    /\ Usable(c)
    /\ text # widgets[c].location
    /\ ScriptRun(c, [kind |-> "location", text |-> text])

EditGrowthStage(c, text) ==
    /\ Usable(c)
    /\ text # widgets[c].growth_stage
    /\ ScriptRun(c, [kind |-> "growth_stage", text |-> text])

MoveSlider(c, r) ==
    /\ ControlsShown(c)
    /\ r # session_state[c].feedback_rating
    /\ ScriptRun(c, [kind |-> "slider", rating |-> r])

PressGenerate(c, data, resp) ==
    /\ Usable(c)
    /\ resp.ok => generations < MaxGenerations
    /\ ScriptRun(c, [kind |-> "generate", data |-> data, resp |-> resp])

PressSubmit(c, text, now, push_ok) ==
    /\ ControlsShown(c)
    /\ push_ok => feedback_count < MaxFeedback
    /\ ScriptRun(c, [kind |-> "submit", text |-> text, now |-> now,
                     push_ok |-> push_ok])

DefaultArgs ==
    [sensor |-> EmptyDict, candidates |-> Nothing, crop |-> "",
     location |-> "", growth_stage |-> ""]

Init ==
    /\ env \in [cred : BOOLEAN, key : BOOLEAN]
    /\ firebase_apps = FALSE
    /\ feedback_count = 0
    /\ generations = 0
    /\ session_state = [c \in Clients |-> EmptyDict]
    /\ widgets = [c \in Clients |-> NoWidgets]
    /\ page = [c \in Clients |-> NoPage]
    /\ args = DefaultArgs
    /\ result = Nothing

\* What a user can do on a page that is on screen.
UserAction(c) ==
    \/ \E m \in InputMethods : ChooseInputMethod(c, m)
    \/ PressStart(c)
    \/ \E f \in ImageFiles \cup {None} : ProvideImage(c, f)
    \/ \E f \in CandidateFiles : UploadCandidates(c, f)
    \/ \E text \in CropValues : EditCrop(c, text)
    \/ \E text \in LocationValues : EditLocation(c, text)
    \/ \E text \in GrowthStageValues : EditGrowthStage(c, text)
    \/ \E r \in SliderChoices : MoveSlider(c, r)
    \/ \E data \in SensorData, resp \in Responses : PressGenerate(c, data, resp)
    \/ \E text \in Comments, now \in Times, push_ok \in BOOLEAN :
           PressSubmit(c, text, now, push_ok)

Step(c) == OpenPage(c) \/ UserAction(c)

Next == \E c \in {"c1"} : Step(c)

Spec == Init /\ [][Next]_vars

\* ------------------------------------------- build_user_prompt on its own

SensorArgs ==
    UNION {[D -> {"25.0", "nan"}] : D \in SUBSET {"temp_c", "humidity"}}

CandidateEntries ==
    {EmptyDict, [name |-> ""], [name |-> "Early Blight"], [name |-> "Late Blight"]}
CandidateLists ==
    UNION {[1..n -> CandidateEntries] : n \in 0..MaxCandidates}
CandidateArgs ==
    {Nothing, Some(EmptyDict), Some([note |-> <<>>])}
    \cup {Some([candidates |-> l]) : l \in CandidateLists}

PromptArgs ==
    [sensor : SensorArgs, candidates : CandidateArgs, crop : CropValues,
     location : LocationValues, growth_stage : GrowthStageValues]

InitPrompt ==
    /\ env = [cred |-> TRUE, key |-> TRUE]
    /\ firebase_apps = FALSE
    /\ feedback_count = 0
    /\ generations = 0
    /\ session_state = [c \in Clients |-> EmptyDict]
    /\ widgets = [c \in Clients |-> NoWidgets]
    /\ page = [c \in Clients |-> NoPage]
    /\ args \in PromptArgs
    /\ result = Nothing

CallBuildUserPrompt ==
    /\ result = Nothing
    /\ result' = Some([lines |-> prompt_lines(args.sensor, args.candidates,
                                             args.crop, args.location,
                                             args.growth_stage),
                       text |-> build_user_prompt(args.sensor, args.candidates,
                                                  args.crop, args.location,
                                                  args.growth_stage)])
    /\ UNCHANGED <<env, firebase_apps, feedback_count, generations,
                   session_state, widgets, page, args>>

NextPrompt == CallBuildUserPrompt

SpecPrompt == InitPrompt /\ [][NextPrompt]_vars

\* ------------------------------------------------ several client sessions

\* Every client session runs the script in a thread of its own, so the
\* first runs of two sessions can both find firebase_admin._apps empty at
\* line 21; initialize_app raises ValueError in the one that calls it second.
ErrAppExists == "uncaught: The default Firebase app already exists"

\* Lines 21-26 of a first run: _apps is empty, the credentials are there,
\* initialize_app is still to be called ("init").
PassAppsCheck(c) ==
    /\ page[c].status \in {"none", "crashed"}
    /\ ~firebase_apps
    /\ env.cred
    /\ page' = [page EXCEPT ![c] = [NoPage EXCEPT !.status = "init"]]
    /\ UNCHANGED <<env, firebase_apps, feedback_count, generations,
                   session_state, widgets, args, result>>

\* Line 27 and the rest of that run: an uncaught ValueError ("crashed",
\* nothing is rendered) when another session has initialised the app in
\* the meantime, else the run goes on as any first run.
InitializeApp(c) ==
    /\ page[c].status = "init"
    /\ IF firebase_apps
       THEN /\ page' = [page EXCEPT ![c] =
                   [NoPage EXCEPT !.status = "crashed",
                                  !.messages = {ErrAppExists}]]
            /\ UNCHANGED <<env, firebase_apps, feedback_count, generations,
                           session_state, widgets, args, result>>
       ELSE ScriptRun(c, [kind |-> "open"])

\* A first run that no other session's first run overlaps.
LoadPage(c) ==
    /\ page[c].status # "init"
    /\ OpenPage(c)

\* What the users do in the runs with several sessions.
GoodSensorData == Some([temperature |-> "25", humidity |-> "60"])
ClientResponses ==
    {[ok |-> FALSE, text |-> ""],
     [ok |-> TRUE, text |-> "Likely: Early Blight"],
     [ok |-> TRUE, text |-> "Likely: Late Blight"]}

ClientAction(c) ==
    \/ PressStart(c)
    \/ ProvideImage(c, "leaf.jpg")
    \/ \E text \in CropValues : EditCrop(c, text)
    \/ \E resp \in ClientResponses : PressGenerate(c, GoodSensorData, resp)
    \/ MoveSlider(c, MaxRating)
    \/ \E now \in Times, push_ok \in BOOLEAN : PressSubmit(c, "great", now, push_ok)

StepClients(c) ==
    \/ LoadPage(c)
    \/ PassAppsCheck(c)
    \/ InitializeApp(c)
    \/ ClientAction(c)

InitClients ==
    /\ env = [cred |-> TRUE, key |-> TRUE]
    /\ firebase_apps = FALSE
    /\ feedback_count = 0
    /\ generations = 0
    /\ session_state = [c \in Clients |-> EmptyDict]
    /\ widgets = [c \in Clients |-> NoWidgets]
    /\ page = [c \in Clients |-> NoPage]
    /\ args = DefaultArgs
    /\ result = Nothing

NextClients == \E c \in Clients : StepClients(c)

SpecClients == InitClients /\ [][NextClients]_vars

\* ------------------------------------------------------------ properties

Range(seq) == {seq[i] : i \in DOMAIN seq}

\* The image_file the next run of client c sees is an image.
ImagePresent(c) == Usable(c) /\ widgets[c].image_file # None
NoImage(c) == Usable(c) /\ widgets[c].image_file = None

\* The result panel of client c shows a diagnosis.
ResultShown(c) == Usable(c) /\ session_state[c].generated_diagnosis

\* C1: a "Generate Diagnosis" press while no image is present shows the
\* warning, issues no network call (no sensor read, no generation call, no
\* feedback write) and leaves the session state unchanged.
C1_NoImageOnlyWarns ==
    [][\A c \in Clients :
         ( /\ NoImage(c)
           /\ page'[c].pressed = GenerateButton
           /\ \E data \in SensorData, resp \in Responses :
                  PressGenerate(c, data, resp) )
         => /\ page'[c].messages = {WarnNoImage}
            /\ page'[c].calls = <<>>
            /\ page'[c].parts = Nothing /\ page'[c].entry = Nothing
            /\ session_state' = session_state
            /\ feedback_count' = feedback_count
            /\ generations' = generations]_vars

\* The warning was shown to a client who had pressed start, holds no image
\* and is looking at an earlier diagnosis.
C1_Witness ==
    \E c \in Clients :
        /\ Usable(c)
        /\ page[c].pressed = GenerateButton
        /\ page[c].messages = {WarnNoImage}
        /\ session_state[c].capture_started
        /\ session_state[c].generated_diagnosis
        /\ session_state[c].diagnosis_text # ""

MissingData == {d \in SensorData : ~IsSome(d) \/ ~Truthy(TheValue(d))}

\* C2: when the sensor record is missing or empty at a "Generate Diagnosis"
\* press with an image present, the request issues no generation call and
\* no diagnosis is shown after it.
C2_NoSensorNoGeneration ==
    [][\A c \in Clients : \A data \in MissingData, resp \in Responses :
         ( /\ ImagePresent(c)
           /\ page'[c].pressed = GenerateButton
           /\ PressGenerate(c, data, resp) )
         => /\ GenerateCall \notin Range(page'[c].calls)
            /\ page'[c].parts = Nothing
            /\ generations' = generations
            /\ ErrNoData \in page'[c].messages
            /\ ~session_state'[c].generated_diagnosis
            /\ session_state'[c].diagnosis_text = ""]_vars

\* The run was stopped for want of sensor data after an earlier diagnosis
\* had been shown and rated.
C2_Witness ==
    \E c \in Clients :
        /\ page[c].status = "stopped"
        /\ page[c].messages = {ErrNoData}
        /\ page[c].calls = <<SensorRead>>
        /\ session_state[c].feedback_rating # DefaultRating
        /\ ~session_state[c].generated_diagnosis

FailedResponse == [ok |-> FALSE, text |-> ""]

\* A "Generate Diagnosis" press of client c whose generation call was
\* issued and failed.
GenerationFailed(c) ==
    /\ ImagePresent(c)
    /\ page'[c].pressed = GenerateButton
    /\ GenerateCall \in Range(page'[c].calls)
    /\ \E data \in SensorData : PressGenerate(c, data, FailedResponse)

ClaimedUnchanged ==
    {"diagnosis_text", "generated_diagnosis", "submitted_feedback",
     "capture_started", "feedback_rating"}

\* C3 as claimed: when the generation call fails, the error is shown and
\* every one of diagnosis_text, generated_diagnosis, submitted_feedback,
\* capture_started and feedback_rating has the value it had before the
\* action, also when an earlier diagnosis was being shown.
C3_FailedGenerationChangesNothing ==
    [][\A c \in Clients :
         GenerationFailed(c)
         => /\ ErrGenerate \in page'[c].messages
            /\ \A k \in ClaimedUnchanged :
                   session_state'[c][k] = session_state[c][k]]_vars

\* C3 amended: when the generation call fails, the error is caught and
\* shown and no diagnosis is recorded: after the action generated_diagnosis
\* is false, diagnosis_text is empty and submitted_feedback is false (an
\* earlier diagnosis is discarded), last_image_file is the supplied image,
\* and capture_started and feedback_rating have the values they had before.
C3_FailedGenerationRecordsNothing ==
    [][\A c \in Clients :
         GenerationFailed(c)
         => /\ page'[c].messages = {ErrGenerate}
            /\ page'[c].status = "done"
            /\ ~session_state'[c].generated_diagnosis
            /\ session_state'[c].diagnosis_text = ""
            /\ ~session_state'[c].submitted_feedback
            /\ session_state'[c].last_image_file = widgets[c].image_file
            /\ session_state'[c].capture_started = session_state[c].capture_started
            /\ session_state'[c].feedback_rating = session_state[c].feedback_rating
            /\ generations' = generations]_vars

\* A generation call failed for a client who had rated an earlier
\* diagnosis, which is no longer shown.
C3_Witness ==
    \E c \in Clients :
        /\ page[c].pressed = GenerateButton
        /\ page[c].messages = {ErrGenerate}
        /\ page[c].calls = <<SensorRead, GenerateCall>>
        /\ session_state[c].feedback_rating # DefaultRating
        /\ ~session_state[c].generated_diagnosis

\* C4: feedback is submitted at most once per generated diagnosis: the
\* feedback records never outnumber the successful generations; a feedback
\* write happens only from shown feedback controls and leaves neither the
\* controls nor the diagnosis on screen; and a diagnosis comes on screen
\* only by a successful generation.
C4_OneFeedbackPerDiagnosis ==
    /\ [](feedback_count <= generations)
    /\ [][feedback_count' # feedback_count
          => /\ feedback_count' = feedback_count + 1
             /\ \E c \in Clients :
                    /\ ControlsShown(c)
                    /\ page'[c].pressed = SubmitButton
                    /\ ~ControlsShown(c)'
                    /\ ~ResultShown(c)']_vars
    /\ [][\A c \in Clients :
            (~ResultShown(c) /\ ResultShown(c)')
            => generations' = generations + 1]_vars

\* Two feedback records were written.
C4_Witness == feedback_count = 2 /\ generations = 2

InitialSession ==
    [feedback_rating |-> 3, diagnosis_text |-> "", generated_diagnosis |-> FALSE,
     submitted_feedback |-> FALSE, capture_started |-> FALSE,
     last_image_file |-> None]

\* A "Submit Feedback" press of client c whose record was written.
FeedbackSubmitted(c) ==
    /\ ControlsShown(c)
    /\ page'[c].pressed = SubmitButton
    /\ feedback_count' = feedback_count + 1

\* C5: after a successful "Submit Feedback" the session is back at its
\* defaults (rating 3, no diagnosis text, generated_diagnosis,
\* submitted_feedback and capture_started false, no last image), no image
\* is present, and a "Generate Diagnosis" press then only warns; an image
\* is present only while capture_started is set.
C5_SubmitResetsSession ==
    /\ [][\A c \in Clients :
            FeedbackSubmitted(c)
            => /\ session_state'[c] = InitialSession
               /\ widgets'[c].image_file = None
               /\ \A data \in SensorData, resp \in Responses :
                      LET r == RunFrom(session_state'[c], widgets'[c],
                                       [kind |-> "generate", data |-> data,
                                        resp |-> resp])
                      IN  /\ r.page.messages = {WarnNoImage}
                          /\ r.page.calls = <<>>
                          /\ r.session = InitialSession]_vars
    /\ [](\A c \in Clients :
            ImagePresent(c) => session_state[c].capture_started)

\* A record with a rating other than the default was written and the
\* session is at its defaults.
C5_Witness ==
    \E c \in Clients :
        /\ page[c].pressed = SubmitButton
        /\ IsSome(page[c].entry)
        /\ TheValue(page[c].entry).rating = MaxRating
        /\ session_state[c] = InitialSession

NonNumeric == {"abc"}
MalformedField(d, k) == k \notin DOMAIN d \/ d[k] \in NonNumeric
MalformedData ==
    {Some(d) : d \in {x \in SensorDicts :
                        /\ Truthy(x)
                        /\ \/ MalformedField(x, "temperature")
                           \/ MalformedField(x, "humidity")}}
FloatOrNan(d, k) ==
    IF MalformedField(d, k) THEN "nan" ELSE TheValue(PyFloat(d[k]))

\* C6: a malformed sensor value does not block diagnosis: when the record
\* is present but temperature or humidity is absent or non-numeric (and the
\* image and the candidates file load), the value becomes not-a-number, the
\* generation call is issued and the prompt carries the unknown value.
C6_MalformedSensorStillDiagnoses ==
    [][\A c \in Clients : \A data \in MalformedData, resp \in Responses :
         ( /\ ImagePresent(c)
           /\ IsSome(load_image_bytes(widgets[c].image_file))
           /\ ~load_candidates(widgets[c].candidates_file).raised
           /\ page'[c].pressed = GenerateButton
           /\ PressGenerate(c, data, resp) )
         => /\ GenerateCall \in Range(page'[c].calls)
            /\ IsSome(page'[c].parts)
            /\ TheValue(page'[c].parts).prompt =
                 build_user_prompt(
                     [temp_c |-> FloatOrNan(TheValue(data), "temperature"),
                      humidity |-> FloatOrNan(TheValue(data), "humidity")],
                     load_candidates(widgets[c].candidates_file).value,
                     widgets[c].crop, widgets[c].location,
                     widgets[c].growth_stage)]_vars

\* C7: when the credential file or the API key is absent, no client gets a
\* usable page: no user action is enabled, no session state exists, and no
\* sensor read, generation call or feedback write is issued.
C7_MissingSettingHalts ==
    (~env.cred \/ ~env.key)
    => /\ feedback_count = 0
       /\ generations = 0
       /\ \A c \in Clients :
              /\ ~Usable(c)
              /\ ~ENABLED UserAction(c)
              /\ session_state[c] = EmptyDict
              /\ widgets[c] = NoWidgets
              /\ page[c].calls = <<>>
              /\ page[c].parts = Nothing /\ page[c].entry = Nothing

\* The page was requested with the credentials in place and the API key
\* absent, and the run was halted.
C7_Witness ==
    \E c \in Clients :
        /\ env.cred /\ ~env.key
        /\ page[c].status = "halted"
        /\ page[c].messages = {ErrNoApiKey}

\* C8 as claimed: a shown diagnosis stays, with the same text, across every
\* action that neither generates a new diagnosis nor submits feedback, a
\* failing diagnosis request included.
C8_HeldUntilGeneratedOrSubmitted ==
    [][\A c \in Clients :
         ( /\ ResultShown(c)
           /\ generations' = generations
           /\ feedback_count' = feedback_count )
         => /\ ResultShown(c)'
            /\ session_state'[c].diagnosis_text = session_state[c].diagnosis_text]_vars

\* C8 amended: a shown diagnosis stays, with the same text, until a
\* diagnosis is requested with an image present (whether or not the request
\* succeeds) or feedback is submitted: every other action (editing crop,
\* location or growth stage, pressing start, changing the input method,
\* pressing "Generate Diagnosis" without an image, a failed feedback write)
\* leaves it as it is.
C8_HeldUntilRequestedOrSubmitted ==
    [][\A c \in Clients :
         ( /\ ResultShown(c)
           /\ ~(page'[c].pressed = GenerateButton /\ ImagePresent(c))
           /\ feedback_count' = feedback_count )
         => /\ ResultShown(c)'
            /\ session_state'[c].diagnosis_text = session_state[c].diagnosis_text]_vars

\* A feedback write failed and the diagnosis is still shown.
C8_Witness ==
    \E c \in Clients :
        /\ page[c].status = "exception"
        /\ page[c].messages = {ErrPush}
        /\ ResultShown(c)
        /\ session_state[c].diagnosis_text # ""

\* The order the prompt's lines are to come in.
LineOrder ==
    <<HeaderLabel, CropLabel, GrowthStageLabel, LocationLabel,
      TemperatureLabel, HumidityLabel, CandidatesLabel, FooterLabel>>
Position(label) == CHOOSE i \in DOMAIN LineOrder : LineOrder[i] = label

\* The lines of the built prompt with the given label.
LinesLabelled(label) ==
    LET lines == TheValue(result).lines
    IN  {i \in DOMAIN lines : lines[i].label = label}
ValueLabelled(label) ==
    LET lines == TheValue(result).lines
    IN  lines[CHOOSE i \in DOMAIN lines : lines[i].label = label].value

NonEmpty(text) == text # ""
\* The non-empty names of a candidates argument, in input order.
NamesOf(candidates) ==
    IF IsSome(candidates) /\ "candidates" \in DOMAIN TheValue(candidates)
    THEN LET list == TheValue(candidates)["candidates"]
         IN  SelectSeq([i \in DOMAIN list |->
                          IF "name" \in DOMAIN list[i] THEN list[i].name ELSE ""],
                       NonEmpty)
    ELSE <<>>

\* C9: build_user_prompt always emits one temperature line and one humidity
\* line, emits the crop, growth stage and location lines exactly when the
\* value is non-empty and a candidates line only when there is a non-empty
\* name, each line carrying its value, and always in the order crop, growth
\* stage, location, temperature, humidity, candidates.
C9_PromptLinesInFixedOrder ==
    IsSome(result) =>
      LET lines == TheValue(result).lines
      IN  /\ \A i \in DOMAIN lines : lines[i].label \in Range(LineOrder)
          /\ \A i, j \in DOMAIN lines :
                 i < j => Position(lines[i].label) < Position(lines[j].label)
          /\ Cardinality(LinesLabelled(TemperatureLabel)) = 1
          /\ Cardinality(LinesLabelled(HumidityLabel)) = 1
          /\ ValueLabelled(TemperatureLabel) = Get(args.sensor, "temp_c", "NaN")
          /\ ValueLabelled(HumidityLabel) = Get(args.sensor, "humidity", "NaN")
          /\ (LinesLabelled(CropLabel) # {}) = (args.crop # "")
          /\ (LinesLabelled(GrowthStageLabel) # {}) = (args.growth_stage # "")
          /\ (LinesLabelled(LocationLabel) # {}) = (args.location # "")
          /\ args.crop # "" => ValueLabelled(CropLabel) = args.crop
          /\ args.growth_stage # ""
                 => ValueLabelled(GrowthStageLabel) = args.growth_stage
          /\ args.location # "" => ValueLabelled(LocationLabel) = args.location
          /\ LinesLabelled(CandidatesLabel) # {} => NamesOf(args.candidates) # <<>>
          /\ lines[1].label = HeaderLabel
          /\ lines[Len(lines)].label = FooterLabel

\* A prompt was built with every optional input present.
C9_Witness ==
    /\ IsSome(result)
    /\ args.crop # "" /\ args.growth_stage # "" /\ args.location # ""
    /\ NamesOf(args.candidates) # <<>>
    /\ DOMAIN args.sensor = {"temp_c", "humidity"}
    /\ Len(TheValue(result).lines) = Len(LineOrder)

\* C10: the prompt has a candidates line exactly when the candidate list
\* has an entry with a non-empty name, and the line then lists exactly the
\* non-empty names, comma-joined in input order ("Early Blight" and "Late
\* Blight" give "Early Blight, Late Blight"); no list, an empty list or a
\* list without a non-empty name gives no candidates line.
C10_CandidateLine ==
    IsSome(result) =>
      LET names == NamesOf(args.candidates)
      IN  /\ names = <<>> => LinesLabelled(CandidatesLabel) = {}
          /\ names # <<>>
               => /\ Cardinality(LinesLabelled(CandidatesLabel)) = 1
                  /\ ValueLabelled(CandidatesLabel) = Join(names, ", ")
          /\ names = <<"Early Blight", "Late Blight">>
               => ValueLabelled(CandidatesLabel) = "Early Blight, Late Blight"
          /\ names = <<"Late Blight">>
               => ValueLabelled(CandidatesLabel) = "Late Blight"

\* A prompt was built from the names "Early Blight" and "Late Blight".
C10_Witness ==
    /\ IsSome(result)
    /\ args.candidates = Some(TwoCandidates)
    /\ ValueLabelled(CandidatesLabel) = "Early Blight, Late Blight"

OptionalKeys == {"crop", "location", "growth_stage"}

\* C11: the record written by "Submit Feedback" carries exactly the rating
\* selected at submission (an integer in 1..5), the comment entered, the
\* diagnosis text live at submission and a timestamp, and carries crop,
\* location and growth_stage exactly when the field is non-empty at
\* submission; the live diagnosis text is the text returned by the most
\* recent successful generation, because the text changes only by being
\* cleared or by being set to the text a successful generation returned.
C11_FeedbackRecord ==
    /\ [][\A c \in Clients :
            FeedbackSubmitted(c)
            => \E text \in Comments, now \in Times :
                 /\ PressSubmit(c, text, now, TRUE)
                 /\ IsSome(page'[c].entry)
                 /\ LET e == TheValue(page'[c].entry)
                    IN  /\ DOMAIN e = {"rating", "feedback", "diagnosis",
                                       "timestamp", "optional"}
                        /\ e.rating = session_state[c].feedback_rating
                        /\ e.rating \in MinRating..MaxRating
                        /\ e.feedback = text
                        /\ e.diagnosis = session_state[c].diagnosis_text
                        /\ e.timestamp = now
                        /\ DOMAIN e.optional =
                               {k \in OptionalKeys : widgets[c][k] # ""}
                        /\ \A k \in DOMAIN e.optional :
                               e.optional[k] = widgets[c][k]]_vars
    /\ [][\A c \in Clients :
            ( /\ Usable(c) /\ Usable(c)'
              /\ session_state'[c].diagnosis_text # session_state[c].diagnosis_text )
            => \/ /\ session_state'[c].diagnosis_text = ""
                  /\ ~session_state'[c].generated_diagnosis
               \/ \E data \in SensorData, resp \in Responses :
                      /\ resp.ok
                      /\ PressGenerate(c, data, resp)
                      /\ generations' = generations + 1
                      /\ session_state'[c].generated_diagnosis
                      /\ session_state'[c].diagnosis_text = resp.text]_vars

\* A record was written with the lowest rating, a comment, the text of a
\* diagnosis and the crop, while location and growth stage were empty.
C11_Witness ==
    \E c \in Clients :
        /\ page[c].pressed = SubmitButton
        /\ IsSome(page[c].entry)
        /\ LET e == TheValue(page[c].entry)
           IN  /\ e.rating = MinRating
               /\ e.feedback = "great"
               /\ e.diagnosis = "Likely: Late Blight"
               /\ e.timestamp = 1700000060
               /\ DOMAIN e.optional = {"crop"}
               /\ e.optional["crop"] = "tomato"

\* How many times call x occurs in the sequence calls.
Count(x, calls) == Cardinality({i \in DOMAIN calls : calls[i] = x})

\* C12: after a "Generate Diagnosis" action whose generation call fails the
\* session is in the "no diagnosis generated" state (generated_diagnosis
\* false, diagnosis_text empty, neither the result panel nor the feedback
\* controls shown), and there is no retry and no partial result: every
\* "Generate Diagnosis" action issues at most one sensor read and at most one
\* generation call, and the failed one counts as no generation.
C12_FailedGenerationNoDiagnosis ==
    [][\A c \in Clients :
         /\ GenerationFailed(c)
            => /\ Usable(c)'
               /\ ~session_state'[c].generated_diagnosis
               /\ session_state'[c].diagnosis_text = ""
               /\ ~ResultShown(c)'
               /\ ~ControlsShown(c)'
               /\ Count(GenerateCall, page'[c].calls) = 1
               /\ page'[c].entry = Nothing
               /\ generations' = generations
         /\ page'[c].pressed = GenerateButton
            => /\ Count(SensorRead, page'[c].calls) <= 1
               /\ Count(GenerateCall, page'[c].calls) <= 1]_vars

\* A generation call that carried the candidates file failed for a client
\* whose image is still selected; nothing is shown but the error.
C12_Witness ==
    \E c \in Clients :
        /\ page[c].pressed = GenerateButton
        /\ page[c].messages = {ErrGenerate}
        /\ IsSome(page[c].parts)
        /\ IsSome(TheValue(page[c].parts).candidates)
        /\ ImagePresent(c)
        /\ ~ResultShown(c)
        /\ ~ControlsShown(c)

\* Files that are not images.
UndecodableFiles == {"broken.png"}

\* The image client c has selected cannot be decoded.
ImageUndecodable(c) ==
    ImagePresent(c) /\ widgets[c].image_file \in UndecodableFiles

\* C13: a "Generate Diagnosis" press with an image that cannot be decoded is
\* aborted with a user-visible error (the decoder's, unless reading the
\* sensor record already failed): the request issues no generation call,
\* counts as no generation, and no diagnosis is shown after it.
C13_UndecodableImageAborts ==
    [][\A c \in Clients :
         ( /\ ImageUndecodable(c)
           /\ page'[c].pressed = GenerateButton )
         => /\ page'[c].messages \in {{ErrImage}, {ErrNoData}, {ErrFloat}}
            /\ page'[c].calls = <<SensorRead>>
            /\ page'[c].parts = Nothing
            /\ generations' = generations
            /\ ~ResultShown(c)'
            /\ session_state'[c].diagnosis_text = ""]_vars

\* The decoder's error was shown to a client who had rated an earlier
\* diagnosis; the undecodable file is still selected.
C13_Witness ==
    \E c \in Clients :
        /\ page[c].pressed = GenerateButton
        /\ page[c].messages = {ErrImage}
        /\ page[c].calls = <<SensorRead>>
        /\ widgets[c].image_file = "broken.png"
        /\ session_state[c].last_image_file = "broken.png"
        /\ session_state[c].feedback_rating # DefaultRating
        /\ ~ResultShown(c)

\* "Start Capture/Upload" was pressed in the current cycle of client c.
CaptureChosen(c) == Usable(c) /\ session_state[c].capture_started

\* C14: within every cycle the events come in the order start pressed,
\* image acquired, diagnosis generated, feedback submitted: an image is
\* present only after start was pressed in the current cycle, and is
\* acquired only then; a generation call is issued only while an image is
\* present; a feedback write is issued only while a diagnosis is live, and
\* a diagnosis goes live only by a generation call; capture_started, once
\* set, stays set until a successful feedback submission, which starts the
\* next cycle with nothing pressed, acquired or generated.
C14_CycleOrder ==
    /\ [](\A c \in Clients :
            /\ ImagePresent(c) => CaptureChosen(c)
            /\ ResultShown(c) => CaptureChosen(c))
    /\ [][\A c \in Clients :
            /\ (~ImagePresent(c) /\ ImagePresent(c)') => CaptureChosen(c)
            /\ GenerateCall \in Range(page'[c].calls)
                   => (ImagePresent(c) /\ page'[c].pressed = GenerateButton)
            /\ (~ResultShown(c) /\ ResultShown(c)')
                   => GenerateCall \in Range(page'[c].calls)
            /\ FeedbackPush \in Range(page'[c].calls)
                   => (ResultShown(c) /\ page'[c].pressed = SubmitButton)
            /\ (CaptureChosen(c) /\ ~CaptureChosen(c)')
                   => /\ FeedbackSubmitted(c)
                      /\ ~ImagePresent(c)' /\ ~ResultShown(c)']_vars

\* A second cycle has reached its diagnosis: a record was written earlier
\* and a diagnosis is shown again.
C14_Witness ==
    \E c \in Clients :
        /\ feedback_count = 1
        /\ generations = 2
        /\ CaptureChosen(c) /\ ImagePresent(c) /\ ResultShown(c)
        /\ page[c].pressed = GenerateButton

\* The last run of client c was a "Submit Feedback" press whose write failed.
PushFailed(c) ==
    /\ page[c].pressed = SubmitButton
    /\ FeedbackPush \in Range(page[c].calls)
    /\ page[c].entry = Nothing

\* C15: when the feedback write fails inside "Submit Feedback" the fault
\* leaves the handler uncaught and the session is not reset: no record is
\* written, the session state is what it was (submitted_feedback false, the
\* diagnosis live with the same text), the feedback controls stay on screen,
\* and "Submit Feedback" can be pressed again for the same diagnosis.
C15_FailedWriteKeepsSession ==
    /\ [][\A c \in Clients :
            ( /\ ControlsShown(c)
              /\ page'[c].pressed = SubmitButton
              /\ feedback_count' = feedback_count )
            => /\ page'[c].status = "exception"
               /\ page'[c].messages = {ErrPush}
               /\ page'[c].calls = <<FeedbackPush>>
               /\ page'[c].entry = Nothing
               /\ session_state'[c] = session_state[c]
               /\ widgets'[c] = widgets[c]
               /\ generations' = generations]_vars
    /\ [](\A c \in Clients :
            PushFailed(c)
            => /\ ~session_state[c].submitted_feedback
               /\ ResultShown(c)
               /\ ControlsShown(c)
               /\ \E text \in Comments, now \in Times :
                      ENABLED PressSubmit(c, text, now, FALSE)
               /\ feedback_count < MaxFeedback
                      => \E text \in Comments, now \in Times :
                             ENABLED PressSubmit(c, text, now, TRUE))

\* A feedback write failed for a client who had moved the slider to the
\* lowest rating and whose diagnosis has no text; the controls are still
\* there.
C15_Witness ==
    \E c \in Clients :
        /\ PushFailed(c)
        /\ page[c].status = "exception"
        /\ ControlsShown(c)
        /\ session_state[c].feedback_rating = MinRating
        /\ session_state[c].diagnosis_text = ""
        /\ feedback_count = 1

\* Client c has a session state: a script run got as far as line 111.
HasSession(c) == DOMAIN session_state[c] = Keys

\* C17: at the end of every script run, generated_diagnosis = false implies
\* that diagnosis_text is empty: a non-empty text is never stored while the
\* result panel is hidden, every diagnosis request with an image clears the
\* text together with the flag, and a text is stored only by a run that
\* also sets the flag.
C17_NoTextWithoutFlag ==
    /\ [](\A c \in Clients :
            (HasSession(c) /\ ~session_state[c].generated_diagnosis)
            => session_state[c].diagnosis_text = "")
    /\ [][\A c \in Clients :
            /\ ( /\ ImagePresent(c)
                 /\ page'[c].pressed = GenerateButton
                 /\ generations' = generations )
               => /\ ~session_state'[c].generated_diagnosis
                  /\ session_state'[c].diagnosis_text = ""
            /\ ( /\ HasSession(c) /\ HasSession(c)'
                 /\ session_state'[c].diagnosis_text # ""
                 /\ session_state'[c].diagnosis_text # session_state[c].diagnosis_text )
               => /\ session_state'[c].generated_diagnosis
                  /\ generations' = generations + 1]_vars

\* A diagnosis with a text had been shown and rated, and a request that
\* failed on a non-numeric sensor value has hidden the panel and emptied
\* the text.
C17_Witness ==
    \E c \in Clients :
        /\ page[c].pressed = GenerateButton
        /\ page[c].messages = {ErrFloat}
        /\ session_state[c].feedback_rating = MaxRating
        /\ ~session_state[c].generated_diagnosis
        /\ session_state[c].diagnosis_text = ""

\* C18: submitted_feedback is false at the start of every script run, that
\* is, in every session state a run has left behind, so whenever a
\* diagnosis is shown the feedback controls are shown with it.
C18_NeverSubmittedBetweenRuns ==
    \A c \in Clients :
        /\ "submitted_feedback" \in DOMAIN session_state[c]
               => ~session_state[c].submitted_feedback
        /\ ResultShown(c) => ControlsShown(c)

\* After a record was written the session exists again with
\* submitted_feedback false, and later a new diagnosis is shown with the
\* feedback controls.
C18_Witness ==
    \E c \in Clients :
        /\ feedback_count = 1
        /\ HasSession(c)
        /\ ~session_state[c].submitted_feedback
        /\ ResultShown(c) /\ ControlsShown(c)
        /\ session_state[c].diagnosis_text = "Likely: Early Blight"
        /\ session_state[c].feedback_rating = MinRating

\* What client c holds: its session state, its widgets and its page.
StateOf(c) == <<session_state[c], widgets[c], page[c]>>

====
